---- MODULE Spec2Model ----
(***************************************************************************)
(* QMC5883L magnetometer driver (micropython_qmc5883l/qmc5883l.py).        *)
(* The device is a set of registers behind an I2C bus; the driver is a     *)
(* single-threaded caller whose position is pc.  One step of the driver    *)
(* is everything it does up to and including its next bus transaction.    *)
(***************************************************************************)
EXTENDS Integers, Sequences, FiniteSets, TLC

(* ------------------------------------------------------------ bounds --- *)
\* Setter arguments are drawn from -1..MaxArg.
MaxArg == 4
\* The per-call read counter saturates here (a poll loop reads without bound).
ReadCap == 3

(* --------------------------------------------------------- constants --- *)
REG_WHOAMI == 13
REG_SET_RESET == 11
REG_OPERATION_MODE == 9
REG_STATUS == 6
REG_MEASURES == 0

OVERSAMPLE_64 == 3
OVERSAMPLE_128 == 2
OVERSAMPLE_256 == 1
OVERSAMPLE_512 == 0
oversample_values == {OVERSAMPLE_64, OVERSAMPLE_128, OVERSAMPLE_256, OVERSAMPLE_512}

FIELDRANGE_2G == 0
FIELDRANGE_8G == 1
field_range_values == {FIELDRANGE_2G, FIELDRANGE_8G}

OUTPUT_DATA_RATE_10 == 0
OUTPUT_DATA_RATE_50 == 1
OUTPUT_DATA_RATE_100 == 2
OUTPUT_DATA_RATE_200 == 3
data_rate_values ==
    {OUTPUT_DATA_RATE_10, OUTPUT_DATA_RATE_50, OUTPUT_DATA_RATE_100, OUTPUT_DATA_RATE_200}

MODE_STANDBY == 0
MODE_CONTINUOUS == 1
mode_values == {MODE_STANDBY, MODE_CONTINUOUS}

DEVICE_ID == 255
RESOLUTION_8G == 3000
RESOLUTION_2G == 12000

\* The name tables of the four getters (Python tuples, indexed from 0).
oversamples == <<"OVERSAMPLE_512", "OVERSAMPLE_256", "OVERSAMPLE_128", "OVERSAMPLE_64">>
ranges == <<"FIELDRANGE_2G", "FIELDRANGE_8G">>
rates ==
    <<"OUTPUT_DATA_RATE_10", "OUTPUT_DATA_RATE_50", "OUTPUT_DATA_RATE_100", "OUTPUT_DATA_RATE_200">>
modes == <<"MODE_STANDBY", "MODE_CONTINUOUS">>

Settings == {"oversample", "field_range", "output_data_rate", "mode_control"}

\* The legal raw codes of a setting: the tuple its setter tests membership in.
\* (Variant: every setter accepts any two-bit value.)
LegalValuesAnyTwoBits(s) == 0 .. 3
LegalValues(s) ==
    CASE s = "oversample" -> oversample_values
      [] s = "field_range" -> field_range_values
      [] s = "output_data_rate" -> data_rate_values
      [] s = "mode_control" -> mode_values

\* The name table a setting's getter indexes.
\* (Variant: the oversample names listed in ascending order of ratio.)
NameTableAscending(s) ==
    CASE s = "oversample" -> <<"OVERSAMPLE_64", "OVERSAMPLE_128", "OVERSAMPLE_256", "OVERSAMPLE_512">>
      [] s = "field_range" -> ranges
      [] s = "output_data_rate" -> rates
      [] s = "mode_control" -> modes
NameTable(s) ==
    CASE s = "oversample" -> oversamples
      [] s = "field_range" -> ranges
      [] s = "output_data_rate" -> rates
      [] s = "mode_control" -> modes

\* Bit offset of a setting's CBits descriptor in the operation-mode register.
\* (Variant: the field-range descriptor one bit too high, overlapping oversample.)
StartBitFieldRangeAt5(s) ==
    CASE s = "oversample" -> 6
      [] s = "field_range" -> 5
      [] s = "output_data_rate" -> 2
      [] s = "mode_control" -> 0
StartBit(s) ==
    CASE s = "oversample" -> 6
      [] s = "field_range" -> 4
      [] s = "output_data_rate" -> 2
      [] s = "mode_control" -> 0

\* Bit width of every setting's CBits descriptor.
NumBits == 2
\* The data-ready descriptor: CBits(1, _REG_STATUS, 2).
DataReadyBits == 1
DataReadyStartBit == 2

(* ------------------------------------------- register accessor layer --- *)
RECURSIVE BitOr(_, _)
\* Bitwise OR of two naturals.
BitOr(a, b) ==
    IF a = 0 THEN b
    ELSE IF b = 0 THEN a
    ELSE (IF (a % 2 = 1) \/ (b % 2 = 1) THEN 1 ELSE 0) + 2 * BitOr(a \div 2, b \div 2)

\* CBits.__get__: shift and mask the field out of the register byte.
CBitsGet(byte, numBits, startBit) == (byte \div (2 ^ startBit)) % (2 ^ numBits)

\* CBits.__set__, the modify part: clear the field's bits, OR in the shifted value.
\* A negative value makes the byte negative, which to_bytes rejects: -1 stands for that.
CBitsModify(byte, numBits, startBit, v) ==
    IF v < 0 THEN -1
    ELSE BitOr(byte - CBitsGet(byte, numBits, startBit) * (2 ^ startBit), v * (2 ^ startBit))

\* struct "<h": two bytes, little-endian, signed.
Int16LE(lo, hi) ==
    LET u == lo + 256 * hi IN IF u >= 32768 THEN u - 65536 ELSE u

\* RegisterStruct.__get__ with layout "<hhhBh": the five unpacked fields.
UnpackMeasures(b) ==
    <<Int16LE(b[1], b[2]), Int16LE(b[3], b[4]), Int16LE(b[5], b[6]), b[7], Int16LE(b[8], b[9])>>

RECURSIVE Gcd(_, _)
Gcd(a, b) == IF b = 0 THEN a ELSE Gcd(b, a % b)

Abs(n) == IF n < 0 THEN -n ELSE n

\* Python true division of two integers, as the exact fraction <<num, den>>
\* in lowest terms with a positive denominator.
TrueDiv(n, d) ==
    LET g == Gcd(Abs(n), Abs(d))
        sgn == IF d < 0 THEN -1 ELSE 1
    IN <<(sgn * n) \div g, (sgn * d) \div g>>

(* -------------------------------------------------------------- state --- *)
VARIABLES
    regWhoami,          \* device: value of the identity register pair at 0x0D
    regSetReset,        \* device: value of the register pair at 0x0B
    regOperationMode,   \* device: byte at 0x09
    regStatus,          \* device: byte at 0x06
    regMeasures,        \* device: the bytes of the measurement block at 0x00
    bound,              \* a driver object exists (construction returned)
    resolution,         \* driver: self.resolution; 0 while the attribute is not yet assigned
    pc,                 \* driver: position
    op,                 \* driver: the public call in progress or last finished
    setting,            \* driver: the setting whose descriptor is being accessed
    value,              \* driver: the setter's argument
    cont,               \* driver: where the running setter returns to
    reg,                \* driver: CBits.__set__'s local byte
    result,             \* driver: what the last finished call returned or raised
    mag,                \* driver: the triple a finished magnetic read returned
    preOperationMode,   \* history: operation-mode byte when the call began
    preResolution,      \* history: resolution when the call began
    nReads,             \* history: bus reads issued by the call (saturating)
    writes,             \* history: bus writes issued by the call, in order
    lastTx,             \* history: the call's latest bus transaction
    prevTx,             \* history: the one before it
    lastSet             \* history: per setting, the code of its last successful set (-1: none)

vars == <<regWhoami, regSetReset, regOperationMode, regStatus, regMeasures, bound,
          resolution, pc, op, setting, value, cont, reg, result, mag, preOperationMode,
          preResolution, nReads, writes, lastTx, prevTx, lastSet>>

devVars == <<regWhoami, regSetReset, regOperationMode, regStatus, regMeasures>>

NoMag == <<<<0, 1>>, <<0, 1>>, <<0, 1>>>>

NoTx == [kind |-> "none", reg |-> -1, val |-> -1]

\* Measurement blocks the device may hold (9 bytes each).
\*   x = 6000, y = -6000, z = 3000, status byte 5, last field 16;
\*   the same axes with other non-axis bytes (1 and -1).
Samples ==
    { <<112, 23, 144, 232, 184, 11, 5, 16, 0>>,
      <<112, 23, 144, 232, 184, 11, 1, 255, 255>> }

Args == -1 .. MaxArg

Quiescent == pc \in {"unbound", "returned", "raised"}

Init ==
    /\ regWhoami \in {DEVICE_ID, 0, 511}
    /\ regSetReset \in {0}
    /\ regOperationMode \in 0 .. 255
    /\ regStatus \in {1, 5}
    /\ regMeasures \in Samples
    /\ bound = FALSE
    /\ resolution = 0
    /\ pc = "unbound"
    /\ op = "none"
    /\ setting = "none"
    /\ value = 0
    /\ cont = "none"
    /\ reg = 0
    /\ result = "none"
    /\ mag = NoMag
    /\ preOperationMode = regOperationMode
    /\ preResolution = 0
    /\ nReads = 0
    /\ writes = <<>>
    /\ lastTx = NoTx
    /\ prevTx = NoTx
    /\ lastSet = [s \in Settings |-> -1]

(* ------------------------------------------------- history bookkeeping --- *)
Min(a, b) == IF a < b THEN a ELSE b

Tx(kind, r, v) == [kind |-> kind, reg |-> r, val |-> v]

\* The call's record of a bus read (kind "read", or "readfail" when the bus raised).
LogRead(first, tx) ==
    /\ nReads' = IF first THEN 1 ELSE Min(nReads + 1, ReadCap)
    /\ prevTx' = IF first THEN NoTx ELSE lastTx
    /\ lastTx' = tx
    /\ writes' = IF first THEN <<>> ELSE writes

\* The call's record of a bus write (kind "write", or "writefail").
LogWrite(tx) ==
    /\ nReads' = nReads
    /\ prevTx' = lastTx
    /\ lastTx' = tx
    /\ writes' = IF tx.kind = "write" THEN Append(writes, <<tx.reg, tx.val>>) ELSE writes

\* A step that touches no bus.
LogNone(first) ==
    /\ nReads' = IF first THEN 0 ELSE nReads
    /\ prevTx' = IF first THEN NoTx ELSE prevTx
    /\ lastTx' = IF first THEN NoTx ELSE lastTx
    /\ writes' = IF first THEN <<>> ELSE writes

\* A public call begins: remember what it found.
Snapshot(first, o) ==
    /\ op' = IF first THEN o ELSE op
    /\ preOperationMode' = IF first THEN regOperationMode ELSE preOperationMode
    /\ preResolution' = IF first THEN resolution ELSE preResolution

\* The call in progress ends by raising exc.
Raise(exc, v) ==
    /\ pc' = "raised"
    /\ result' = exc
    /\ mag' = NoMag
    /\ value' = v
    /\ setting' = "none"
    /\ cont' = "none"
    /\ reg' = 0

\* The call in progress ends by returning res (and, for magnetic, the triple m).
Return(res, m, v) ==
    /\ pc' = "returned"
    /\ result' = res
    /\ mag' = m
    /\ value' = v
    /\ setting' = "none"
    /\ cont' = "none"
    /\ reg' = 0

\* The call in progress goes on at position p, outside any descriptor access.
Goto(p) ==
    /\ pc' = p
    /\ result' = "none"
    /\ mag' = NoMag
    /\ value' = 0
    /\ setting' = "none"
    /\ cont' = "none"
    /\ reg' = 0

(* ------------------------------------------------------------- device --- *)
\* In continuous mode the device completes a measurement: it stores a sample
\* and asserts the data-ready bit.
DeviceDataReady ==
    /\ CBitsGet(regOperationMode, NumBits, StartBit("mode_control")) = MODE_CONTINUOUS
    /\ CBitsGet(regStatus, DataReadyBits, DataReadyStartBit) = 0
    /\ regStatus' = regStatus + 2 ^ DataReadyStartBit
    /\ regMeasures' \in Samples
    /\ UNCHANGED <<regWhoami, regSetReset, regOperationMode, bound, resolution, pc, op,
                   setting, value, cont, reg, result, mag, preOperationMode,
                   preResolution, nReads, writes, lastTx, prevTx, lastSet>>

(* ------------------------------------------------------------ setters --- *)
\* What the setter of s assigns to self.resolution before it writes the field.
\* (Variant: the two resolutions exchanged.)
ResolutionSwapped(s, v) ==
    IF s = "field_range"
    THEN IF v = 1 THEN RESOLUTION_2G ELSE RESOLUTION_8G
    ELSE resolution
ResolutionFor(s, v) ==
    IF s = "field_range"
    THEN IF v = 1 THEN RESOLUTION_8G ELSE RESOLUTION_2G
    ELSE resolution

\* The body of the setter of s called with v, up to the read that begins
\* CBits.__set__; k is where the setter returns to.
Setter(s, v, first, k, fail) ==
    /\ Snapshot(first, s)
    /\ UNCHANGED <<devVars, bound, lastSet>>
    /\ IF v \notin LegalValues(s)
       THEN /\ Raise("ValueError", v)
            /\ LogNone(first)
            /\ UNCHANGED resolution
       ELSE /\ resolution' = ResolutionFor(s, v)
            /\ IF fail
               THEN /\ Raise("OSError", v)
                    /\ LogRead(first, Tx("readfail", REG_OPERATION_MODE, -1))
               ELSE /\ pc' = "cbits_write"
                    /\ setting' = s
                    /\ value' = v
                    /\ cont' = k
                    /\ reg' = regOperationMode
                    /\ result' = "none"
                    /\ mag' = NoMag
                    /\ LogRead(first, Tx("read", REG_OPERATION_MODE, regOperationMode))

\* CBits.__set__, second half: write the modified byte back; then the setter
\* returns, to the caller or into __init__.
CBitsSetWrite(fail) ==
    /\ pc = "cbits_write"
    /\ LET byte == CBitsModify(reg, NumBits, StartBit(setting), value) IN
       /\ UNCHANGED <<regWhoami, regSetReset, regStatus, regMeasures, resolution, op,
                      preOperationMode, preResolution>>
       /\ IF byte \notin 0 .. 255
          THEN /\ Raise("OverflowError", value)
               /\ LogNone(FALSE)
               /\ UNCHANGED <<regOperationMode, bound, lastSet>>
          ELSE IF fail
          THEN /\ Raise("OSError", value)
               /\ LogWrite(Tx("writefail", REG_OPERATION_MODE, byte))
               /\ UNCHANGED <<regOperationMode, bound, lastSet>>
          ELSE /\ regOperationMode' = byte
               /\ lastSet' = [lastSet EXCEPT ![setting] = value]
               /\ LogWrite(Tx("write", REG_OPERATION_MODE, byte))
               /\ bound' = IF cont = "init_return" THEN TRUE ELSE bound
               /\ IF cont = "return" THEN Return("None", NoMag, value)
                  ELSE IF cont = "init_return" THEN Return("None", NoMag, 0)
                  ELSE Goto(cont)

Callable == bound /\ pc \in {"returned", "raised"}

oversample_setter(fail) ==
    /\ Callable
    /\ \E v \in Args : Setter("oversample", v, TRUE, "return", fail)

field_range_setter(fail) ==
    /\ Callable
    /\ \E v \in Args : Setter("field_range", v, TRUE, "return", fail)

output_data_rate_setter(fail) ==
    /\ Callable
    /\ \E v \in Args : Setter("output_data_rate", v, TRUE, "return", fail)

mode_control_setter(fail) ==
    /\ Callable
    /\ \E v \in Args : Setter("mode_control", v, TRUE, "return", fail)

(* ------------------------------------------------------------ getters --- *)
\* The getter of s: one descriptor read, then the name table indexed by it.
Getter(s, fail) ==
    /\ Callable
    /\ Snapshot(TRUE, "get_" \o s)
    /\ UNCHANGED <<devVars, bound, resolution, lastSet>>
    /\ IF fail
       THEN /\ Raise("OSError", 0)
            /\ LogRead(TRUE, Tx("readfail", REG_OPERATION_MODE, -1))
       ELSE LET i == CBitsGet(regOperationMode, NumBits, StartBit(s)) IN
            /\ LogRead(TRUE, Tx("read", REG_OPERATION_MODE, regOperationMode))
            /\ IF i + 1 \in DOMAIN NameTable(s)
               THEN Return(NameTable(s)[i + 1], NoMag, 0)
               ELSE Raise("IndexError", 0)

oversample_getter(fail) == Getter("oversample", fail)

field_range_getter(fail) == Getter("field_range", fail)

output_data_rate_getter(fail) == Getter("output_data_rate", fail)

mode_control_getter(fail) == Getter("mode_control", fail)

(* ------------------------------------------------------- construction --- *)
\* The identity test of __init__: self._device_id != 0xFF raises.
\* (Variant: only the low byte of the identity is compared.)
IdentityOkLowByte(id) == id % 256 = DEVICE_ID
IdentityOk(id) == id = DEVICE_ID

\* __init__, first step: read the identity register and compare it.
InitDeviceId(fail) ==
    /\ ~bound
    /\ pc \in {"unbound", "raised"}
    /\ Snapshot(TRUE, "init")
    /\ resolution' = 0
    /\ lastSet' = [s \in Settings |-> -1]
    /\ UNCHANGED <<devVars, bound>>
    /\ IF fail
       THEN /\ Raise("OSError", 0)
            /\ LogRead(TRUE, Tx("readfail", REG_WHOAMI, -1))
       ELSE /\ LogRead(TRUE, Tx("read", REG_WHOAMI, regWhoami))
            /\ IF ~IdentityOk(regWhoami)
               THEN Raise("RuntimeError", 0)
               ELSE Goto("init_reset")

\* __init__: self._reset = 0x01.
InitReset(fail) ==
    /\ pc = "init_reset"
    /\ UNCHANGED <<regWhoami, regOperationMode, regStatus, regMeasures, bound, resolution,
                   op, preOperationMode, preResolution, lastSet>>
    /\ IF fail
       THEN /\ Raise("OSError", 0)
            /\ LogWrite(Tx("writefail", REG_SET_RESET, 1))
            /\ UNCHANGED regSetReset
       ELSE /\ regSetReset' = 1
            /\ LogWrite(Tx("write", REG_SET_RESET, 1))
            /\ Goto("init_oversample")

\* __init__: self.oversample = OVERSAMPLE_128.
InitOversample(fail) ==
    /\ pc = "init_oversample"
    /\ Setter("oversample", OVERSAMPLE_128, FALSE, "init_field_range", fail)

\* __init__: self.field_range = FIELDRANGE_2G.
InitFieldRange(fail) ==
    /\ pc = "init_field_range"
    /\ Setter("field_range", FIELDRANGE_2G, FALSE, "init_output_data_rate", fail)

\* __init__: self.output_data_rate = OUTPUT_DATA_RATE_200.
InitOutputDataRate(fail) ==
    /\ pc = "init_output_data_rate"
    /\ Setter("output_data_rate", OUTPUT_DATA_RATE_200, FALSE, "init_mode_control", fail)

\* __init__: self.mode_control = MODE_CONTINUOUS; its write ends construction.
InitModeControl(fail) ==
    /\ pc = "init_mode_control"
    /\ Setter("mode_control", MODE_CONTINUOUS, FALSE, "init_return", fail)

(* ----------------------------------------------------------- magnetic --- *)
\* The loop condition of magnetic: while self._data_ready_register != 1.
\* (Variants: no wait at all; waiting while the bit is set.)
PollAgainNever(ready) == FALSE
PollAgainWhileReady(ready) == ready # 0
PollAgain(ready) == ready # 1

\* One evaluation of the loop condition: read the data-ready bit.
DataReadyPoll(first, fail) ==
    /\ Snapshot(first, "magnetic")
    /\ UNCHANGED <<devVars, bound, resolution, lastSet>>
    /\ IF fail
       THEN /\ Raise("OSError", 0)
            /\ LogRead(first, Tx("readfail", REG_STATUS, -1))
       ELSE LET ready == CBitsGet(regStatus, DataReadyBits, DataReadyStartBit) IN
            /\ LogRead(first, Tx("read", REG_STATUS, ready))
            /\ Goto(IF PollAgain(ready) THEN "mag_sleep" ELSE "mag_measures")

\* The magnetic property is read: the first poll.
magnetic(fail) ==
    /\ Callable
    /\ DataReadyPoll(TRUE, fail)

\* After time.sleep(0.001): the next poll.
MagneticPoll(fail) ==
    /\ pc = "mag_sleep"
    /\ DataReadyPoll(FALSE, fail)

\* The loop has ended: read the measurement block and scale the three axes.
\* Reading the block de-asserts the device's data-ready bit.
MagneticMeasures(fail) ==
    /\ pc = "mag_measures"
    /\ UNCHANGED <<regWhoami, regSetReset, regOperationMode, regMeasures, bound,
                   resolution, op, preOperationMode, preResolution, lastSet>>
    /\ IF fail
       THEN /\ Raise("OSError", 0)
            /\ LogRead(FALSE, Tx("readfail", REG_MEASURES, -1))
            /\ UNCHANGED regStatus
       ELSE LET m == UnpackMeasures(regMeasures) IN
            /\ LogRead(FALSE, Tx("read", REG_MEASURES, 0))
            /\ regStatus' = regStatus
                  - CBitsGet(regStatus, DataReadyBits, DataReadyStartBit) * 2 ^ DataReadyStartBit
            /\ Return("magnetic",
                      <<TrueDiv(m[1], resolution), TrueDiv(m[2], resolution),
                        TrueDiv(m[3], resolution)>>, 0)

(* ------------------------------------------------------ specification --- *)
\* The driver's steps; fail says whether the step's bus transaction raises.
Driver(fail) ==
    \/ InitDeviceId(fail)
    \/ InitReset(fail)
    \/ InitOversample(fail)
    \/ InitFieldRange(fail)
    \/ InitOutputDataRate(fail)
    \/ InitModeControl(fail)
    \/ CBitsSetWrite(fail)
    \/ oversample_setter(fail)
    \/ field_range_setter(fail)
    \/ output_data_rate_setter(fail)
    \/ mode_control_setter(fail)
    \/ oversample_getter(fail)
    \/ field_range_getter(fail)
    \/ output_data_rate_getter(fail)
    \/ mode_control_getter(fail)
    \/ magnetic(fail)
    \/ MagneticPoll(fail)
    \/ MagneticMeasures(fail)

Next == DeviceDataReady \/ \E fail \in BOOLEAN : Driver(fail)

Spec == Init /\ [][Next]_vars

\* The same program on a bus whose transactions all succeed, with the driver
\* running its poll loop and the device measuring whenever it is in continuous mode.
NextReliable == DeviceDataReady \/ Driver(FALSE)

SpecLive ==
    /\ Init
    /\ [][NextReliable]_vars
    /\ WF_vars(MagneticPoll(FALSE))
    /\ WF_vars(MagneticMeasures(FALSE))
    /\ WF_vars(DeviceDataReady)

(* ------------------------------------------------------------- claims --- *)
\* The enumerations and names as the specification states them, written out
\* independently of the driver's tables.
SpecLegal(s) ==
    CASE s = "oversample" -> {0, 1, 2, 3}
      [] s = "field_range" -> {0, 1}
      [] s = "output_data_rate" -> {0, 1, 2, 3}
      [] s = "mode_control" -> {0, 1}

SpecName(s, c) ==
    CASE s = "oversample" ->
           (CASE c = 3 -> "OVERSAMPLE_64" [] c = 2 -> "OVERSAMPLE_128"
              [] c = 1 -> "OVERSAMPLE_256" [] c = 0 -> "OVERSAMPLE_512" [] OTHER -> "undefined")
      [] s = "field_range" ->
           (CASE c = 0 -> "FIELDRANGE_2G" [] c = 1 -> "FIELDRANGE_8G" [] OTHER -> "undefined")
      [] s = "output_data_rate" ->
           (CASE c = 0 -> "OUTPUT_DATA_RATE_10" [] c = 1 -> "OUTPUT_DATA_RATE_50"
              [] c = 2 -> "OUTPUT_DATA_RATE_100" [] c = 3 -> "OUTPUT_DATA_RATE_200"
              [] OTHER -> "undefined")
      [] s = "mode_control" ->
           (CASE c = 0 -> "MODE_STANDBY" [] c = 1 -> "MODE_CONTINUOUS" [] OTHER -> "undefined")

\* Sub-fields of an operation-mode byte by the register map:
\* bits 7:6 oversample, 5:4 field range, 3:2 output data rate, 1:0 mode.
SpecField(s, byte) ==
    CASE s = "oversample" -> (byte \div 64) % 4
      [] s = "field_range" -> (byte \div 16) % 4
      [] s = "output_data_rate" -> (byte \div 4) % 4
      [] s = "mode_control" -> byte % 4

\* Bit 2 of the status byte.
SpecReady(byte) == (byte \div 4) % 2

\* C1: a setter called with a value outside its setting's enumeration raises
\* ValueError having issued no bus read or write, with the operation-mode byte
\* and the resolution as they were when the call began.
C1_InvalidSettingRejected ==
    (op \in Settings /\ value \notin SpecLegal(op)) =>
        /\ pc = "raised"
        /\ result = "ValueError"
        /\ nReads = 0
        /\ writes = <<>>
        /\ lastTx = NoTx
        /\ regOperationMode = preOperationMode
        /\ resolution = preResolution

C1_Witness ==
    /\ pc = "raised"
    /\ result = "ValueError"
    /\ op = "field_range"
    /\ value = 2
    /\ preResolution = RESOLUTION_8G

\* C2: a getter called right after the same setting's setter returned from
\* set(c) returns the name c decodes to.
C2_SetThenGet ==
    [][ \A s \in Settings :
          ( /\ pc = "returned"
            /\ op = s
            /\ op' = "get_" \o s
            /\ pc' \in {"returned", "raised"}
            /\ result' # "OSError" )
          => (pc' = "returned" /\ result' = SpecName(s, value)) ]_vars

C2_Witness ==
    /\ pc = "returned"
    /\ op = "get_oversample"
    /\ result = "OVERSAMPLE_64"
    /\ lastSet["oversample"] = 3
    /\ preOperationMode \div 64 = 3

\* C3: the write that ends a set changes only the sub-field of the setting being
\* set, which then holds the value written; no other driver step changes the
\* operation-mode byte; and a getter returns the name of the code last set
\* to its own setting.
C3_FieldIsolation ==
    [][ /\ pc # "cbits_write" => regOperationMode' = regOperationMode
        /\ pc = "cbits_write" =>
              /\ \A s \in Settings \ {setting} :
                    SpecField(s, regOperationMode') = SpecField(s, regOperationMode)
              /\ lastTx'.kind = "write" => SpecField(setting, regOperationMode') = value
        /\ \A s \in Settings :
              (op' = "get_" \o s /\ pc' = "returned") => result' = SpecName(s, lastSet'[s])
      ]_vars

C3_Witness ==
    /\ pc = "returned"
    /\ op = "mode_control"
    /\ value = 0
    /\ SpecField("mode_control", preOperationMode) = 1
    /\ SpecField("mode_control", regOperationMode) = 0
    /\ lastSet["oversample"] = 3
    /\ SpecField("oversample", regOperationMode) = 3
    /\ SpecField("field_range", regOperationMode) = 1

\* C4: while the identity register does not read 0xFF no driver is ever
\* constructed and nothing is ever written; a construction whose identity read
\* went through raises RuntimeError after that one read.
C4_DeviceNotFound ==
    regWhoami # 255 =>
        /\ ~bound
        /\ writes = <<>>
        /\ regSetReset = 0
        /\ regOperationMode = preOperationMode
        /\ lastTx.kind # "write"
        /\ (op = "init" /\ lastTx.kind = "read") =>
              (pc = "raised" /\ result = "RuntimeError" /\ nReads = 1)

C4_Witness ==
    /\ regWhoami = 511
    /\ pc = "raised"
    /\ result = "RuntimeError"
    /\ lastTx = Tx("read", 13, 511)

\* C5: a read of the measurement block directly follows a status read that
\* returned ready, the status bit is asserted when the block is about to be
\* read, and a magnetic read returns only from such a block read.
C5_ReadOnlyWhenReady ==
    /\ (lastTx.reg = 0 /\ lastTx.kind \in {"read", "readfail"}) => prevTx = Tx("read", 6, 1)
    /\ pc = "mag_measures" => (lastTx = Tx("read", 6, 1) /\ SpecReady(regStatus) = 1)
    /\ (op = "magnetic" /\ pc = "returned") =>
          (lastTx.kind = "read" /\ lastTx.reg = 0 /\ prevTx = Tx("read", 6, 1))

C5_Witness ==
    /\ op = "magnetic"
    /\ pc = "returned"
    /\ nReads >= 3

\* The resolution that belongs to the field range held by the device.
SpecResolution(byte) == IF SpecField("field_range", byte) = 1 THEN 3000 ELSE 12000

\* C6: between calls on a constructed driver the resolution is the one of
\* the field range the device holds: 12000 for 2G, 3000 for 8G.
C6_ResolutionMatchesFieldRange ==
    (bound /\ pc \in {"returned", "raised"}) => resolution = SpecResolution(regOperationMode)

\* C7: a magnetic read returns the three signed 16-bit axis values divided by
\* 12000 when the device is in 2G and by 3000 when it is in 8G.  Every sample
\* the device holds has axes 6000, -6000, 3000.
C7_ScaledByActiveRange ==
    (op = "magnetic" /\ pc = "returned") =>
        mag = IF SpecField("field_range", regOperationMode) = 0
              THEN << <<1, 2>>, <<-1, 2>>, <<1, 4>> >>
              ELSE << <<2, 1>>, <<-2, 1>>, <<1, 1>> >>

\* C8: a construction writes 0x01 to register 0x0B first, then the operation-mode
\* byte four times, changing oversample, field range, output data rate and mode
\* in that order; when it returns the byte is 0b10001101 and the resolution 12000.
C8_ConstructionDefaults ==
    /\ (op = "init" /\ writes # <<>>) =>
          /\ writes[1] = <<11, 1>>
          /\ regSetReset = 1
          /\ \A i \in 2 .. Len(writes) : writes[i][1] = 9
          /\ Len(writes) >= 2 =>
                (writes[2][2] \div 64 = 2 /\ writes[2][2] % 64 = preOperationMode % 64)
          /\ Len(writes) >= 3 =>
                (writes[3][2] \div 16 = 8 /\ writes[3][2] % 16 = preOperationMode % 16)
          /\ Len(writes) >= 4 =>
                (writes[4][2] \div 4 = 35 /\ writes[4][2] % 4 = preOperationMode % 4)
          /\ Len(writes) >= 5 => writes[5][2] = 141
    /\ (op = "init" /\ pc = "returned") =>
          /\ bound
          /\ Len(writes) = 5
          /\ regOperationMode = 141
          /\ resolution = 12000
          /\ lastSet = [s \in Settings |->
                          CASE s = "oversample" -> 2 [] s = "field_range" -> 0
                            [] s = "output_data_rate" -> 3 [] s = "mode_control" -> 1]

C8_Witness ==
    /\ op = "init"
    /\ pc = "returned"
    /\ preOperationMode = 114

\* C9: on a bus that does not fail, a magnetic read begun with the device in
\* continuous mode eventually returns; one that is polling with the device in
\* standby and data-ready not asserted stays polling at every later step.
C9_TerminatesIffReady ==
    /\ ( (pc \in {"mag_sleep", "mag_measures"} /\ SpecField("mode_control", regOperationMode) = 1)
           ~> (pc = "returned" /\ op = "magnetic") )
    /\ [][ ( /\ pc = "mag_sleep"
             /\ SpecField("mode_control", regOperationMode) = 0
             /\ SpecReady(regStatus) = 0 )
           => ( /\ pc' = "mag_sleep"
                /\ SpecField("mode_control", regOperationMode') = 0
                /\ SpecReady(regStatus') = 0 ) ]_vars

C9_Witness ==
    /\ pc = "mag_sleep"
    /\ SpecField("mode_control", regOperationMode) = 0
    /\ SpecReady(regStatus) = 0
    /\ nReads >= 3

\* C10: every code the driver has written to a sub-field is a legal code of its
\* setting; on a constructed driver every sub-field of the operation-mode byte
\* holds a legal code, and no getter raises IndexError.
C10_OnlyLegalCodes ==
    /\ \A s \in Settings : lastSet[s] # -1 => lastSet[s] \in SpecLegal(s)
    /\ bound =>
          /\ \A s \in Settings : SpecField(s, regOperationMode) \in SpecLegal(s)
          /\ op # "init" =>
                \A i \in 1 .. Len(writes) :
                    /\ writes[i][1] = 9
                    /\ \A s \in Settings : SpecField(s, writes[i][2]) \in SpecLegal(s)
          /\ result # "IndexError"
          /\ \A s \in Settings :
                (pc = "returned" /\ op = "get_" \o s) =>
                    /\ result = SpecName(s, SpecField(s, regOperationMode))
                    /\ result # "undefined"

C10_Witness ==
    /\ bound
    /\ pc = "returned"
    /\ op = "get_field_range"
    /\ result = "FIELDRANGE_8G"
    /\ preOperationMode = 221

====
